---- MODULE Spec2Model ----
(***************************************************************************)
(* Faculty workload and scheduling application (src/main.py).              *)
(*                                                                         *)
(* The model covers the Faculty and Course records, the load evaluator,    *)
(* the schedule-conflict checker, the two input handlers add_faculty and   *)
(* add_course, and the SQLite store with its full-replace save and its     *)
(* load at start-up.  Widgets, styling and the PDF/CSV exports do not      *)
(* change the roster or the store and are left out.                        *)
(***************************************************************************)
EXTENDS Integers, Sequences, FiniteSets, TLC

(***************************************************************************)
(* Bounds of the model.                                                    *)
(***************************************************************************)
\* Largest number of courses the roster holds, over all faculty, under
\* Spec.
MaxCourses == 3
\* Largest number of courses the roster holds under SpecStore.
MaxStoreCourses == 2
\* Largest number of courses the roster holds under SpecLoad.
MaxLoadCourses == 4

(***************************************************************************)
(* Strings.  Names and year levels are only compared for equality and      *)
(* tested for emptiness, so they are TLA+ strings.  A time slot is split   *)
(* on whitespace by the conflict checker, so it is a sequence of           *)
(* characters.                                                             *)
(***************************************************************************)
MW == <<"M", "W">>
TTh == <<"T", "T", "h">>
Sat == <<"S", "a", "t">>
T0740am_0910am == <<"0", "7", ":", "4", "0", "a", "m", "-", "0", "9", ":", "1", "0", "a", "m">>
T0920am_1050am == <<"0", "9", ":", "2", "0", "a", "m", "-", "1", "0", ":", "5", "0", "a", "m">>
T1225pm_0155pm == <<"1", "2", ":", "2", "5", "p", "m", "-", "0", "1", ":", "5", "5", "p", "m">>
T0205pm_0335pm == <<"0", "2", ":", "0", "5", "p", "m", "-", "0", "3", ":", "3", "5", "p", "m">>
T0345pm_0515pm == <<"0", "3", ":", "4", "5", "p", "m", "-", "0", "5", ":", "1", "5", "p", "m">>
T0550pm_0720pm == <<"0", "5", ":", "5", "0", "p", "m", "-", "0", "7", ":", "2", "0", "p", "m">>
T0730pm_0900pm == <<"0", "7", ":", "3", "0", "p", "m", "-", "0", "9", ":", "0", "0", "p", "m">>
T0900am_1200pm == <<"0", "9", ":", "0", "0", "a", "m", "-", "1", "2", ":", "0", "0", "p", "m">>
T0100pm_0400pm == <<"0", "1", ":", "0", "0", "p", "m", "-", "0", "4", ":", "0", "0", "p", "m">>
T0500pm_0800pm == <<"0", "5", ":", "0", "0", "p", "m", "-", "0", "8", ":", "0", "0", "p", "m">>

\* "<day> <time>", as the items of the schedule combo box are written.
Slot(day, time) == day \o <<" ">> \o time

\* The items of the schedule combo box, in order.
ScheduleItems ==
    << Slot(MW, T0740am_0910am), Slot(MW, T0920am_1050am),
       Slot(MW, T1225pm_0155pm), Slot(MW, T0205pm_0335pm),
       Slot(TTh, T0740am_0910am), Slot(TTh, T0920am_1050am),
       Slot(TTh, T1225pm_0155pm), Slot(TTh, T0205pm_0335pm),
       Slot(TTh, T0345pm_0515pm), Slot(TTh, T0550pm_0720pm),
       Slot(TTh, T0730pm_0900pm),
       Slot(Sat, T0900am_1200pm), Slot(Sat, T0100pm_0400pm),
       Slot(Sat, T0500pm_0800pm) >>

\* The items of the other combo boxes, in order.
ClassificationItems == <<"Full-time PhD", "Full-time MA", "Part-time">>
AdminItems == <<"Not Admin", "Admin">>
YearLevelItems == <<"BA 1", "BA 2", "BA 3", "BA 4", "MA 1", "MA 2">>
UnitsItems == <<3, 6>>

Range(s) == {s[i] : i \in DOMAIN s}

(***************************************************************************)
(* What the user enters.  Three sets of inputs are explored, each wide in  *)
(* the fields its properties read and narrow in the others:                *)
(*   - scheduling (Spec): two faculty, two year levels and three time      *)
(*     slots, two of them with the same day pattern;                       *)
(*   - the store (SpecStore): two faculty of every classification and      *)
(*     admin status, courses of both unit counts;                          *)
(*   - the load (SpecLoad): one faculty of every classification and admin  *)
(*     status, and enough year levels and time slots for it to own         *)
(*     MaxLoadCourses courses.                                             *)
(***************************************************************************)
Classifications == Range(ClassificationItems)
AdminTexts == Range(AdminItems)
Units == Range(UnitsItems)

FacultyNameInputs == {"", "A. Reyes", "B. Cruz"}
CourseNameInputs == {"", "Philo 101"}

YearLevels == {YearLevelItems[1], YearLevelItems[2]}
Schedules == {ScheduleItems[1], ScheduleItems[2], ScheduleItems[5]}

StoreYearLevels == {YearLevelItems[1]}
StoreSchedules == {ScheduleItems[1], ScheduleItems[5]}

LoadSchedules ==
    {ScheduleItems[1], ScheduleItems[2], ScheduleItems[5], ScheduleItems[12]}

(***************************************************************************)
(* Python values.  A bool is an int in Python (True == 1), and SQLite      *)
(* hands a BOOLEAN column back as an int: the admin flag of a faculty      *)
(* built by add_faculty is a bool, that of a faculty built by              *)
(* load_data_from_db is an int.                                            *)
(***************************************************************************)
PyBool(b) == [t |-> "bool", v |-> IF b THEN 1 ELSE 0]
PyInt(n) == [t |-> "int", v |-> n]
\* Truth value of a bool or an int, as `x if flag else y` takes it.
Truthy(x) == x.v # 0
\* Python's == between bools and ints.
PyEq(x, y) == x.v = y.v

(***************************************************************************)
(* Course and Faculty records.                                             *)
(***************************************************************************)
Course(name, year_level, units, schedule) ==
    [name |-> name, year_level |-> year_level, units |-> units,
     schedule |-> schedule]

\* A variant that forgets the admin reduction of "Full-time MA".
calculate_required_load_NoReductionMA(classification, is_admin) ==
    IF classification = "Full-time PhD"
    THEN 15 - (IF Truthy(is_admin) THEN 12 ELSE 0)
    ELSE IF classification = "Full-time MA"
    THEN 18
    ELSE 0

\* A variant that takes the admin reduction off the part-time base too.
calculate_required_load_ReducedPartTime(classification, is_admin) ==
    IF classification = "Full-time PhD"
    THEN 15 - (IF Truthy(is_admin) THEN 12 ELSE 0)
    ELSE IF classification = "Full-time MA"
    THEN 18 - (IF Truthy(is_admin) THEN 12 ELSE 0)
    ELSE 0 - (IF Truthy(is_admin) THEN 12 ELSE 0)

\* Faculty.calculate_required_load, on the two fields it reads.
calculate_required_load(classification, is_admin) ==
    IF classification = "Full-time PhD"
    THEN 15 - (IF Truthy(is_admin) THEN 12 ELSE 0)
    ELSE IF classification = "Full-time MA"
    THEN 18 - (IF Truthy(is_admin) THEN 12 ELSE 0)
    ELSE 0

\* Faculty.__init__: no courses, and the required load computed once.
Faculty(name, classification, is_admin) ==
    [name |-> name, classification |-> classification, is_admin |-> is_admin,
     courses |-> <<>>,
     required_load |-> calculate_required_load(classification, is_admin)]

RECURSIVE SumUnits(_)
SumUnits(courses) ==
    IF courses = <<>> THEN 0
    ELSE Head(courses).units + SumUnits(Tail(courses))

\* A variant that counts the courses instead of adding their units.
current_load_CountsCourses(faculty) == Len(faculty.courses)

\* Faculty.current_load
current_load(faculty) == SumUnits(faculty.courses)

\* Faculty.load_status; the f-string is kept as its pieces.
load_status(faculty) ==
    LET current == current_load(faculty) IN
    IF current < faculty.required_load
    THEN <<"Below required (", faculty.required_load - current, " units short)">>
    ELSE IF current > faculty.required_load
    THEN <<"Overload (", current - faculty.required_load, " units excess)">>
    ELSE <<"Satisfied">>

(***************************************************************************)
(* str.split()[0]: the first maximal run of non-whitespace characters.     *)
(* Every time slot of the combo box holds one, so the IndexError of an     *)
(* empty or blank string does not arise.                                   *)
(***************************************************************************)
IsSpace(ch) == ch \in {" ", "\t", "\n", "\r"}

RECURSIVE SkipSpaces(_)
SkipSpaces(s) ==
    IF s # <<>> /\ IsSpace(Head(s)) THEN SkipSpaces(Tail(s)) ELSE s

RECURSIVE TakeToken(_)
TakeToken(s) ==
    IF s = <<>> \/ IsSpace(Head(s)) THEN <<>>
    ELSE <<Head(s)>> \o TakeToken(Tail(s))

\* A variant that does not split: the whole string is the token.
FirstToken_NoSplit(s) == s

FirstToken(s) == TakeToken(SkipSpaces(s))

(***************************************************************************)
(* FacultyWorkloadApp.check_schedule_conflict.  The faculty is an object   *)
(* of the roster, compared by identity with the others: here its position  *)
(* fi in the list.                                                         *)
(***************************************************************************)
\* A variant of the first loop that takes an identical time slot for a
\* conflict only within one year level.
OwnConflict_SameYearOnly(courses, new_course) ==
    \E i \in DOMAIN courses :
        \/ /\ courses[i].year_level = new_course.year_level
           /\ courses[i].schedule = new_course.schedule
        \/ /\ courses[i].year_level = new_course.year_level
           /\ FirstToken(courses[i].schedule) = FirstToken(new_course.schedule)

\* The first loop: the faculty's own courses.
OwnConflict(courses, new_course) ==
    \E i \in DOMAIN courses :
        \/ courses[i].schedule = new_course.schedule
        \/ /\ courses[i].year_level = new_course.year_level
           /\ FirstToken(courses[i].schedule) = FirstToken(new_course.schedule)

\* A variant of the second loop that compares day patterns, as the first
\* loop does, instead of whole time slots.
OtherConflict_DayPattern(roster, fi, new_course) ==
    \E j \in DOMAIN roster :
        /\ j # fi
        /\ \E i \in DOMAIN roster[j].courses :
              /\ roster[j].courses[i].year_level = new_course.year_level
              /\ FirstToken(roster[j].courses[i].schedule)
                     = FirstToken(new_course.schedule)

\* The second loop: the courses of every other faculty.
OtherConflict(roster, fi, new_course) ==
    \E j \in DOMAIN roster :
        /\ j # fi
        /\ \E i \in DOMAIN roster[j].courses :
              /\ roster[j].courses[i].year_level = new_course.year_level
              /\ roster[j].courses[i].schedule = new_course.schedule

\* A variant without the second loop: only the faculty's own courses are
\* looked at.
check_schedule_conflict_OwnOnly(roster, fi, new_course) ==
    OwnConflict(roster[fi].courses, new_course)

\* A variant that applies the rule of the second loop to every faculty,
\* the course's own included, and has no first loop.
check_schedule_conflict_OneRule(roster, fi, new_course) ==
    \E j \in DOMAIN roster :
        \E i \in DOMAIN roster[j].courses :
            /\ roster[j].courses[i].year_level = new_course.year_level
            /\ roster[j].courses[i].schedule = new_course.schedule

check_schedule_conflict(roster, fi, new_course) ==
    IF OwnConflict(roster[fi].courses, new_course) THEN TRUE
    ELSE IF OtherConflict(roster, fi, new_course) THEN TRUE
    ELSE FALSE

(***************************************************************************)
(* The SQLite store: the rows of the tables faculty and courses, each in   *)
(* rowid order, which is the order a SELECT without ORDER BY scans an      *)
(* unindexed table in.                                                     *)
(***************************************************************************)
EmptyStore == [faculty |-> <<>>, courses |-> <<>>]

\* An INTEGER PRIMARY KEY left out of an INSERT: one more than the largest
\* rowid of the table, 1 in an empty table.
RECURSIVE MaxId(_)
MaxId(rows) ==
    IF rows = <<>> THEN 0
    ELSE LET m == MaxId(Tail(rows)) IN
         IF Head(rows).id > m THEN Head(rows).id ELSE m

NextRowId(rows) == MaxId(rows) + 1

\* INSERT INTO faculty (name, classification, is_admin): a bool is bound
\* as the integer 1 or 0.
InsertFaculty(store, faculty) ==
    [store EXCEPT !.faculty = Append(@,
        [id |-> NextRowId(store.faculty), name |-> faculty.name,
         classification |-> faculty.classification,
         is_admin |-> faculty.is_admin.v])]

\* INSERT INTO courses (faculty_id, name, year_level, units, schedule)
InsertCourse(store, faculty_id, course) ==
    [store EXCEPT !.courses = Append(@,
        [id |-> NextRowId(store.courses), faculty_id |-> faculty_id,
         name |-> course.name, year_level |-> course.year_level,
         units |-> course.units, schedule |-> course.schedule])]

\* The inner loop of save_data_to_db: the courses of one faculty, from the
\* k-th on, under the rowid of the faculty row just inserted.
RECURSIVE SaveCourses(_, _, _, _)
SaveCourses(store, faculty_id, courses, k) ==
    IF k > Len(courses) THEN store
    ELSE SaveCourses(InsertCourse(store, faculty_id, courses[k]),
                     faculty_id, courses, k + 1)

\* The outer loop of save_data_to_db, from the k-th faculty on.
\* cursor.lastrowid is the rowid of the faculty row just inserted.
RECURSIVE SaveFaculty(_, _, _)
SaveFaculty(store, roster, k) ==
    IF k > Len(roster) THEN store
    ELSE LET inserted == InsertFaculty(store, roster[k])
             lastrowid == inserted.faculty[Len(inserted.faculty)].id
         IN SaveFaculty(SaveCourses(inserted, lastrowid, roster[k].courses, 1),
                        roster, k + 1)

\* DELETE FROM faculty; DELETE FROM courses
DeleteAll(store) == [store EXCEPT !.faculty = <<>>, !.courses = <<>>]

\* A variant that leaves out DELETE FROM courses.
save_data_to_db_KeepsCourses(store, roster) ==
    SaveFaculty([store EXCEPT !.faculty = <<>>], roster, 1)

\* save_data_to_db: the store after the commit.
save_data_to_db(store, roster) == SaveFaculty(DeleteAll(store), roster, 1)

\* SELECT * FROM courses WHERE faculty_id = ?, each row made a Course.
RECURSIVE LoadCourses(_, _)
LoadCourses(rows, faculty_id) ==
    IF rows = <<>> THEN <<>>
    ELSE LET r == Head(rows)
             rest == LoadCourses(Tail(rows), faculty_id)
         IN IF r.faculty_id = faculty_id
            THEN <<Course(r.name, r.year_level, r.units, r.schedule)>> \o rest
            ELSE rest

\* load_data_from_db: the faculty appended to faculty_list, from the k-th
\* row of the faculty table on.
RECURSIVE LoadFaculty(_, _, _)
LoadFaculty(store, roster, k) ==
    IF k > Len(store.faculty) THEN roster
    ELSE LET row == store.faculty[k]
             f == Faculty(row.name, row.classification, PyInt(row.is_admin))
             loaded == [f EXCEPT !.courses = LoadCourses(store.courses, row.id)]
         IN LoadFaculty(store, Append(roster, loaded), k + 1)

load_data_from_db(store, roster) == LoadFaculty(store, roster, 1)

(***************************************************************************)
(* State of the program.                                                   *)
(***************************************************************************)
VARIABLES
    faculty_list,   \* self.faculty_list: the roster, a sequence of Faculty
    db,             \* the committed content of faculty_workload.db
    dialog          \* the QMessageBox the last handler raised, "" if none

vars == <<faculty_list, db, dialog>>

\* The application started on an empty store.
Init ==
    /\ faculty_list = <<>>
    /\ db = EmptyStore
    /\ dialog = ""

RECURSIVE CountCourses(_)
CountCourses(roster) ==
    IF roster = <<>> THEN 0
    ELSE Len(Head(roster).courses) + CountCourses(Tail(roster))

\* The items of the faculty_select combo box, refilled by
\* update_faculty_select on every change of the roster.
FacultySelectItems == {faculty_list[i].name : i \in DOMAIN faculty_list}

\* currentText() of faculty_select: one of its items, "" when it has none.
FacultySelectTexts ==
    IF faculty_list = <<>> THEN {""} ELSE FacultySelectItems

\* next((f for f in self.faculty_list if f.name == faculty_name), None):
\* the position of the first faculty of that name, 0 for None.
FindFaculty(roster, faculty_name) ==
    IF \E i \in DOMAIN roster : roster[i].name = faculty_name
    THEN CHOOSE i \in DOMAIN roster :
            /\ roster[i].name = faculty_name
            /\ \A j \in 1..(i - 1) : roster[j].name # faculty_name
    ELSE 0

\* A variant that compares the name with the first faculty only.
NameExists_FirstOnly(roster, name) == roster # <<>> /\ roster[1].name = name

\* any(f.name == name for f in self.faculty_list)
NameExists(roster, name) == \E i \in DOMAIN roster : roster[i].name = name

\* A variant of add_faculty that does not call save_data_to_db.
add_faculty_NoSave(name, classification, admin_text) ==
    LET is_admin == PyBool(admin_text = "Admin") IN
    IF name # ""
    THEN IF NameExists(faculty_list, name)
         THEN /\ dialog' = "Input Error: A faculty member with this name already exists."
              /\ UNCHANGED <<faculty_list, db>>
         ELSE /\ faculty_list' = Append(faculty_list,
                                        Faculty(name, classification, is_admin))
              /\ dialog' = ""
              /\ UNCHANGED db
    ELSE /\ dialog' = "Input Error: Please enter a faculty name."
         /\ UNCHANGED <<faculty_list, db>>

(***************************************************************************)
(* add_faculty, with the text of the name field and of the two combo       *)
(* boxes.                                                                  *)
(***************************************************************************)
add_faculty(name, classification, admin_text) ==
    LET is_admin == PyBool(admin_text = "Admin") IN
    IF name # ""
    THEN IF NameExists(faculty_list, name)
         THEN /\ dialog' = "Input Error: A faculty member with this name already exists."
              /\ UNCHANGED <<faculty_list, db>>
         ELSE /\ faculty_list' = Append(faculty_list,
                                        Faculty(name, classification, is_admin))
              /\ db' = save_data_to_db(db, faculty_list')
              /\ dialog' = ""
    ELSE /\ dialog' = "Input Error: Please enter a faculty name."
         /\ UNCHANGED <<faculty_list, db>>

\* A variant of add_course whose append and save are not under the else of
\* the conflict test: the dialog is raised and the course is added.
add_course_NoElse(course_name, year_level, units, schedule, faculty_name) ==
    IF course_name # "" /\ faculty_name # ""
    THEN LET course == Course(course_name, year_level, units, schedule)
             fi == FindFaculty(faculty_list, faculty_name)
         IN IF fi # 0
            THEN /\ dialog' =
                      IF check_schedule_conflict(faculty_list, fi, course)
                      THEN "Schedule Conflict: This course conflicts with the faculty's existing schedule."
                      ELSE ""
                 /\ faculty_list' =
                       [faculty_list EXCEPT ![fi].courses = Append(@, course)]
                 /\ db' = save_data_to_db(db, faculty_list')
            ELSE /\ dialog' = "Faculty Not Found: Selected faculty not found."
                 /\ UNCHANGED <<faculty_list, db>>
    ELSE /\ dialog' = "Input Error: Please enter all course details and select a faculty."
         /\ UNCHANGED <<faculty_list, db>>

(***************************************************************************)
(* add_course, with the text of the course field and of the four combo     *)
(* boxes.                                                                  *)
(***************************************************************************)
add_course(course_name, year_level, units, schedule, faculty_name) ==
    IF course_name # "" /\ faculty_name # ""
    THEN LET course == Course(course_name, year_level, units, schedule)
             fi == FindFaculty(faculty_list, faculty_name)
         IN IF fi # 0
            THEN IF check_schedule_conflict(faculty_list, fi, course)
                 THEN /\ dialog' = "Schedule Conflict: This course conflicts with the faculty's existing schedule."
                      /\ UNCHANGED <<faculty_list, db>>
                 ELSE /\ faculty_list' =
                            [faculty_list EXCEPT ![fi].courses = Append(@, course)]
                      /\ db' = save_data_to_db(db, faculty_list')
                      /\ dialog' = ""
            ELSE /\ dialog' = "Faculty Not Found: Selected faculty not found."
                 /\ UNCHANGED <<faculty_list, db>>
    ELSE /\ dialog' = "Input Error: Please enter all course details and select a faculty."
         /\ UNCHANGED <<faculty_list, db>>

\* closeEvent, and FacultyWorkloadApp.__init__ on the next launch: the
\* roster is saved and the window closes; the new window starts with an
\* empty roster and fills it from the store.  Nothing runs in between.
Relaunch ==
    /\ LET saved == save_data_to_db(db, faculty_list) IN
          /\ db' = saved
          /\ faculty_list' = load_data_from_db(saved, <<>>)
    /\ dialog' = ""

AddFacultyFrom(names, classifications, admin_texts) ==
    \E name \in names, classification \in classifications,
       admin_text \in admin_texts :
        add_faculty(name, classification, admin_text)

\* faculty_name is the current text of faculty_select.
AddCourseFrom(course_names, year_levels, units_items, schedules, max) ==
    \E course_name \in course_names, year_level \in year_levels,
       units \in units_items, schedule \in schedules,
       faculty_name \in FacultySelectTexts :
        /\ add_course(course_name, year_level, units, schedule, faculty_name)
        /\ CountCourses(faculty_list') <= max

(***************************************************************************)
(* Scheduling: part-time faculty and 3-unit courses.                       *)
(***************************************************************************)
AddFaculty == AddFacultyFrom(FacultyNameInputs, {"Part-time"}, {"Not Admin"})

AddCourse ==
    AddCourseFrom(CourseNameInputs, YearLevels, {3}, Schedules, MaxCourses)

Next == AddFaculty \/ AddCourse \/ Relaunch

Spec == Init /\ [][Next]_vars

(***************************************************************************)
(* The store.                                                              *)
(***************************************************************************)
StoreAddFaculty ==
    AddFacultyFrom(FacultyNameInputs, Classifications, AdminTexts)

StoreAddCourse ==
    AddCourseFrom(CourseNameInputs, StoreYearLevels, Units, StoreSchedules,
                  MaxStoreCourses)

StoreNext == StoreAddFaculty \/ StoreAddCourse \/ Relaunch

SpecStore == Init /\ [][StoreNext]_vars

(***************************************************************************)
(* The load.                                                               *)
(***************************************************************************)
LoadAddFaculty == AddFacultyFrom({"A. Reyes"}, Classifications, AdminTexts)

LoadAddCourse ==
    AddCourseFrom({"Philo 101"}, YearLevels, Units, LoadSchedules,
                  MaxLoadCourses)

LoadNext == LoadAddFaculty \/ LoadAddCourse

SpecLoad == Init /\ [][LoadNext]_vars

(***************************************************************************)
(* Properties of the load evaluator, under SpecLoad.                       *)
(***************************************************************************)
\* The admin flags a Faculty is built with: a bool by add_faculty, an int
\* by load_data_from_db.
AdminValues == {PyBool(FALSE), PyBool(TRUE), PyInt(0), PyInt(1)}

\* The table of required loads.
RequiredLoadTable(classification, admin) ==
    CASE classification = "Full-time PhD" /\ ~admin -> 15
      [] classification = "Full-time PhD" /\ admin -> 3
      [] classification = "Full-time MA" /\ ~admin -> 18
      [] classification = "Full-time MA" /\ admin -> 6
      [] OTHER -> 0

\* C1: for every classification and admin flag, the required load of a
\* faculty is the one of the fixed table: Full-time PhD 15 (3 if admin),
\* Full-time MA 18 (6 if admin), anything else 0 whether or not admin.
C1_RequiredLoadTable ==
    /\ \A i \in DOMAIN faculty_list :
          LET f == faculty_list[i] IN
          f.required_load = RequiredLoadTable(f.classification, f.is_admin.v = 1)
    /\ \A c \in Classifications \cup {"Visiting"}, a \in AdminValues :
          calculate_required_load(c, a) = RequiredLoadTable(c, a.v = 1)

\* An admin Full-time MA faculty has been added, with required load 6.
C1_Witness ==
    \E i \in DOMAIN faculty_list :
        /\ faculty_list[i].classification = "Full-time MA"
        /\ faculty_list[i].is_admin = PyBool(TRUE)
        /\ faculty_list[i].required_load = 6

\* The units of the owned courses, added up by unit count.
UnitsTotal(faculty) ==
    LET with(u) == {i \in DOMAIN faculty.courses : faculty.courses[i].units = u}
    IN 3 * Cardinality(with(3)) + 6 * Cardinality(with(6))

\* C2: the current load of every faculty is the sum of the units of its
\* courses, and the status is "Satisfied" iff current = required, "Below
\* required" with the shortfall required - current iff current < required,
\* and otherwise "Overload" with the excess current - required.
C2_LoadAndStatus ==
    \A i \in DOMAIN faculty_list :
        LET f == faculty_list[i]
            current == UnitsTotal(f)
            required == f.required_load
        IN /\ \A k \in DOMAIN f.courses : f.courses[k].units \in {3, 6}
           /\ current_load(f) = current
           /\ (load_status(f) = <<"Satisfied">>) <=> (current = required)
           /\ (current < required) <=>
                 (load_status(f) =
                     <<"Below required (", required - current, " units short)">>)
           /\ (current > required) <=>
                 (load_status(f) =
                     <<"Overload (", current - required, " units excess)">>)

\* The example: a non-admin Full-time PhD faculty with three 6-unit courses
\* and one 3-unit course has load 21 and is 6 units in excess.
C2_Witness ==
    \E i \in DOMAIN faculty_list :
        LET f == faculty_list[i] IN
        /\ f.classification = "Full-time PhD" /\ ~Truthy(f.is_admin)
        /\ Len(f.courses) = 4
        /\ Cardinality({k \in DOMAIN f.courses : f.courses[k].units = 6}) = 3
        /\ Cardinality({k \in DOMAIN f.courses : f.courses[k].units = 3}) = 1
        /\ f.required_load = 15
        /\ current_load(f) = 21
        /\ load_status(f) = <<"Overload (", 6, " units excess)">>

\* C9 as stated: some administrative faculty has a negative required
\* load.  It is read in the states whose roster holds an administrative
\* faculty, over every classification and admin flag a Faculty can be
\* built with.
C9_NegativeRequiredLoad ==
    (\E i \in DOMAIN faculty_list : Truthy(faculty_list[i].is_admin))
    => \E c \in Classifications, a \in AdminValues :
          Truthy(a) /\ calculate_required_load(c, a) < 0

\* C9, amended: the required load is never negative.  The reduction of 12
\* is taken off the bases 15 and 18 only, so an administrative faculty has
\* a required load of 3, 6 or 0.
C9_RequiredLoadNonNegative ==
    /\ \A i \in DOMAIN faculty_list :
          LET f == faculty_list[i] IN
          /\ f.required_load >= 0
          /\ Truthy(f.is_admin) => f.required_load \in {3, 6, 0}
    /\ \A c \in Classifications, a \in AdminValues :
          calculate_required_load(c, a) >= 0

\* An administrative faculty of the smallest reduced base has been added.
C9_Witness ==
    \E i \in DOMAIN faculty_list :
        /\ Truthy(faculty_list[i].is_admin)
        /\ faculty_list[i].classification = "Full-time PhD"
        /\ faculty_list[i].required_load = 15 - 12

(***************************************************************************)
(* Properties of the conflict checker, under Spec: in every roster the     *)
(* handlers build, for every faculty of it and every candidate course.     *)
(***************************************************************************)
\* The candidates: a course of every year level and time slot entered.
Candidates == {Course("Philo 101", y, 3, s) : y \in YearLevels, s \in Schedules}

\* The day pattern a time slot of the combo box starts with.
DayPatternOf(schedule) ==
    CHOOSE day \in {MW, TTh, Sat} :
        /\ Len(schedule) > Len(day)
        /\ SubSeq(schedule, 1, Len(day) + 1) = day \o <<" ">>

SameSlot(a, b) == a.schedule = b.schedule
SameYear(a, b) == a.year_level = b.year_level
SameDayPattern(a, b) == DayPatternOf(a.schedule) = DayPatternOf(b.schedule)

\* An own course triggers one of the two same-faculty rules.
OwnRuleTriggered(fi, c) ==
    \E k \in DOMAIN faculty_list[fi].courses :
        LET e == faculty_list[fi].courses[k] IN
        SameSlot(e, c) \/ (SameYear(e, c) /\ SameDayPattern(e, c))

\* A course of another faculty triggers the cross-faculty rule.
OtherRuleTriggered(fi, c) ==
    \E j \in DOMAIN faculty_list : \E k \in DOMAIN faculty_list[j].courses :
        /\ j # fi
        /\ SameYear(faculty_list[j].courses[k], c)
        /\ SameSlot(faculty_list[j].courses[k], c)

ConflictDialog ==
    "Schedule Conflict: This course conflicts with the faculty's existing schedule."

\* C3: the checker returns true whenever the faculty owns a course with the
\* candidate's time slot, whatever the two year levels and the rest of the
\* roster.
C3_IdenticalSlotConflicts ==
    \A fi \in DOMAIN faculty_list : \A c \in Candidates :
        (\E k \in DOMAIN faculty_list[fi].courses :
            SameSlot(faculty_list[fi].courses[k], c))
        => check_schedule_conflict(faculty_list, fi, c) = TRUE

\* A candidate with the time slot of an own course of another year level,
\* next to a second faculty with a course, has been turned down.
C3_Witness ==
    /\ dialog = ConflictDialog
    /\ Len(faculty_list) = 2
    /\ \E fi \in DOMAIN faculty_list : \E c \in Candidates :
          /\ \E k \in DOMAIN faculty_list[fi].courses :
                LET e == faculty_list[fi].courses[k] IN
                SameSlot(e, c) /\ ~SameYear(e, c)
          /\ \E j \in DOMAIN faculty_list : j # fi /\ faculty_list[j].courses # <<>>
          /\ check_schedule_conflict(faculty_list, fi, c)

\* C4: the checker returns true whenever the faculty owns a course of the
\* candidate's year level with the same day pattern, also at another time.
C4_SameYearSameDayConflicts ==
    \A fi \in DOMAIN faculty_list : \A c \in Candidates :
        (\E k \in DOMAIN faculty_list[fi].courses :
            LET e == faculty_list[fi].courses[k] IN
            SameYear(e, c) /\ SameDayPattern(e, c))
        => check_schedule_conflict(faculty_list, fi, c) = TRUE

\* "MW 09:20am-10:50am" has been turned down for a faculty that owns
\* "MW 07:40am-09:10am" in the same year level and no other course.
C4_Witness ==
    /\ dialog = ConflictDialog
    /\ \E fi \in DOMAIN faculty_list :
          /\ Len(faculty_list[fi].courses) = 1
          /\ faculty_list[fi].courses[1].schedule = ScheduleItems[1]
          /\ check_schedule_conflict(faculty_list, fi,
                Course("Philo 101", faculty_list[fi].courses[1].year_level, 3,
                       ScheduleItems[2]))
          /\ \A j \in DOMAIN faculty_list : j # fi => faculty_list[j].courses = <<>>

\* The case of C5: an own course e has the candidate's time slot and another
\* year level, and no other course of the roster triggers a rule.
C5_Case(fi, c) ==
    \E k \in DOMAIN faculty_list[fi].courses :
        LET e == faculty_list[fi].courses[k] IN
        /\ SameSlot(e, c) /\ ~SameYear(e, c)
        /\ \A k2 \in DOMAIN faculty_list[fi].courses :
              k2 # k =>
                 LET e2 == faculty_list[fi].courses[k2] IN
                 ~SameSlot(e2, c) /\ ~(SameYear(e2, c) /\ SameDayPattern(e2, c))
        /\ ~OtherRuleTriggered(fi, c)

\* C5 as stated: the checker returns false in that case.
C5_DifferentYearNoConflict ==
    \A fi \in DOMAIN faculty_list : \A c \in Candidates :
        C5_Case(fi, c) => check_schedule_conflict(faculty_list, fi, c) = FALSE

\* C5, amended: the checker returns true in that case; an identical time
\* slot on the same faculty is a conflict across year levels too.
C5_DifferentYearStillConflicts ==
    \A fi \in DOMAIN faculty_list : \A c \in Candidates :
        C5_Case(fi, c) => check_schedule_conflict(faculty_list, fi, c) = TRUE

\* Such a candidate has been turned down, and the own course is the only
\* course of the roster.
C5_Witness ==
    /\ dialog = ConflictDialog
    /\ CountCourses(faculty_list) = 1
    /\ \E fi \in DOMAIN faculty_list : \E c \in Candidates :
          C5_Case(fi, c) /\ check_schedule_conflict(faculty_list, fi, c)

\* C6: when no own course triggers a rule, the checker returns true if a
\* course of another faculty has the candidate's year level and time slot,
\* and false if every course of the other faculty differs from it in year
\* level or in time slot.
C6_CrossFacultyRule ==
    \A fi \in DOMAIN faculty_list : \A c \in Candidates :
        ~OwnRuleTriggered(fi, c)
        => (check_schedule_conflict(faculty_list, fi, c)
               <=> OtherRuleTriggered(fi, c))

\* Two faculty own courses of one year level and day pattern at different
\* times, and a candidate that only the cross-faculty rule catches has been
\* turned down.
C6_Witness ==
    /\ dialog = ConflictDialog
    /\ \E i, j \in DOMAIN faculty_list :
          /\ i # j
          /\ \E a \in Range(faculty_list[i].courses),
                b \in Range(faculty_list[j].courses) :
                SameYear(a, b) /\ SameDayPattern(a, b) /\ ~SameSlot(a, b)
    /\ \E fi \in DOMAIN faculty_list : \E c \in Candidates :
          /\ ~OwnRuleTriggered(fi, c)
          /\ OtherRuleTriggered(fi, c)
          /\ check_schedule_conflict(faculty_list, fi, c)

(***************************************************************************)
(* Properties of the handlers.                                             *)
(***************************************************************************)
\* C8: an add_course that reaches check_schedule_conflict and finds it true
\* turns the candidate down: the roster, with every course list in it, and
\* the store are unchanged, and the conflict dialog is raised.
C8_ConflictRejected ==
    [][\A course_name \in CourseNameInputs, year_level \in YearLevels,
          units \in Units, schedule \in Schedules,
          faculty_name \in FacultySelectTexts :
           (/\ course_name # "" /\ faculty_name # ""
            /\ FindFaculty(faculty_list, faculty_name) # 0
            /\ check_schedule_conflict(faculty_list,
                  FindFaculty(faculty_list, faculty_name),
                  Course(course_name, year_level, units, schedule))
            /\ add_course(course_name, year_level, units, schedule, faculty_name))
           => /\ faculty_list' = faculty_list
              /\ db' = db
              /\ dialog' = ConflictDialog]_vars

\* A candidate has been turned down in a roster of two faculty with courses.
C8_Witness ==
    /\ dialog = ConflictDialog
    /\ Len(faculty_list) = 2
    /\ \A i \in DOMAIN faculty_list : faculty_list[i].courses # <<>>
    /\ Len(db.courses) = CountCourses(faculty_list)

\* Equality of two rosters, field by field, the admin flags by Python's ==.
RosterEq(r1, r2) ==
    /\ Len(r1) = Len(r2)
    /\ \A i \in DOMAIN r1 :
          /\ r1[i].name = r2[i].name
          /\ r1[i].classification = r2[i].classification
          /\ PyEq(r1[i].is_admin, r2[i].is_admin)
          /\ Len(r1[i].courses) = Len(r2[i].courses)
          /\ \A k \in DOMAIN r1[i].courses :
                /\ r1[i].courses[k].name = r2[i].courses[k].name
                /\ r1[i].courses[k].year_level = r2[i].courses[k].year_level
                /\ r1[i].courses[k].units = r2[i].courses[k].units
                /\ r1[i].courses[k].schedule = r2[i].courses[k].schedule

\* C7: closing the window (a save) and launching again (a load into an
\* empty roster) gives the same faculty in the same order, each with the
\* same courses in the same order; the store has one row for each faculty
\* and for each course.
C7_SaveLoadRoundTrip ==
    [][Relaunch
         => /\ RosterEq(faculty_list', faculty_list)
            /\ Len(db'.faculty) = Len(faculty_list)
            /\ Len(db'.courses) = CountCourses(faculty_list)]_vars

\* A roster of two faculty, the first administrative and the second with
\* a course, has been loaded from the store.
C7_Witness ==
    /\ Len(faculty_list) = 2
    /\ \A i \in DOMAIN faculty_list : faculty_list[i].is_admin.t = "int"
    /\ faculty_list[1].is_admin.v = 1
    /\ faculty_list[1].classification # faculty_list[2].classification
    /\ faculty_list[2].courses # <<>>

NamesUnique(roster) ==
    \A i, j \in DOMAIN roster : roster[i].name = roster[j].name => i = j

\* C10: the names of the roster are unique; add_faculty with an empty name
\* or a name of the roster raises a dialog and leaves the roster and the
\* store unchanged, and otherwise appends one faculty, without courses.
C10_UniqueNames ==
    /\ [](NamesUnique(faculty_list))
    /\ [][\A name \in FacultyNameInputs, classification \in Classifications,
             admin_text \in AdminTexts :
              add_faculty(name, classification, admin_text)
              => IF name = "" \/ name \in FacultySelectItems
                 THEN /\ faculty_list' = faculty_list
                      /\ db' = db
                      /\ dialog' # ""
                 ELSE /\ Len(faculty_list') = Len(faculty_list) + 1
                      /\ SubSeq(faculty_list', 1, Len(faculty_list)) = faculty_list
                      /\ faculty_list'[Len(faculty_list')].name = name
                      /\ faculty_list'[Len(faculty_list')].classification
                            = classification
                      /\ faculty_list'[Len(faculty_list')].is_admin
                            = PyBool(admin_text = "Admin")
                      /\ faculty_list'[Len(faculty_list')].courses = <<>>]_vars

\* The name of the second faculty of the roster has been entered again and
\* turned down.
C10_Witness ==
    /\ dialog = "Input Error: A faculty member with this name already exists."
    /\ Len(faculty_list) = 2
    /\ faculty_list[1].name # faculty_list[2].name

(***************************************************************************)
(* Properties of the roster the handlers build.                            *)
(***************************************************************************)
\* The courses of the roster, each with its owner and its place.
Owned ==
    {p \in (DOMAIN faculty_list) \X (1..CountCourses(faculty_list)) :
        p[2] \in DOMAIN faculty_list[p[1]].courses}

CourseAt(p) == faculty_list[p[1]].courses[p[2]]

\* C11: the roster is conflict-free after any sequence of add_faculty and
\* add_course (and of launches): no faculty owns two courses with the same
\* time slot, none owns two courses of one year level with the same day
\* pattern, and no two courses of the roster, of one faculty or of two,
\* have both the same year level and the same time slot.
C11_RosterConflictFree ==
    \A p, q \in Owned :
        p # q =>
           LET a == CourseAt(p)
               b == CourseAt(q)
           IN /\ p[1] = q[1] => ~SameSlot(a, b)
              /\ p[1] = q[1] => ~(SameYear(a, b) /\ SameDayPattern(a, b))
              /\ ~(SameYear(a, b) /\ SameSlot(a, b))

\* Two faculty own three courses: two of one faculty on different days, and
\* across the two faculty one time slot in two year levels; candidates have
\* been turned down on the way and the last one just now.
C11_Witness ==
    /\ dialog = ConflictDialog
    /\ Len(faculty_list) = 2
    /\ CountCourses(faculty_list) = 3
    /\ \E p, q \in Owned :
          /\ p[1] # q[1]
          /\ SameSlot(CourseAt(p), CourseAt(q))
          /\ ~SameYear(CourseAt(p), CourseAt(q))
    /\ \E p, q \in Owned :
          /\ p[1] = q[1] /\ p # q
          /\ SameYear(CourseAt(p), CourseAt(q))

(***************************************************************************)
(* Properties of the store, under SpecStore.                               *)
(***************************************************************************)
\* The number of courses of the faculty before the i-th.
RECURSIVE CoursesBefore(_, _)
CoursesBefore(roster, i) ==
    IF i <= 1 THEN 0
    ELSE CoursesBefore(roster, i - 1) + Len(roster[i - 1].courses)

\* The tables hold the roster and nothing else: one faculty row for each
\* faculty, numbered from 1 in the order of the roster, and one course row
\* for each course, numbered from 1 faculty by faculty, under the id of its
\* owner's row.
StoreHoldsRoster ==
    /\ Len(db.faculty) = Len(faculty_list)
    /\ \A i \in DOMAIN faculty_list :
          db.faculty[i] =
             [id |-> i, name |-> faculty_list[i].name,
              classification |-> faculty_list[i].classification,
              is_admin |-> IF Truthy(faculty_list[i].is_admin) THEN 1 ELSE 0]
    /\ Len(db.courses) = CountCourses(faculty_list)
    /\ \A i \in DOMAIN faculty_list : \A k \in DOMAIN faculty_list[i].courses :
          LET c == faculty_list[i].courses[k]
              n == CoursesBefore(faculty_list, i) + k
          IN db.courses[n] =
                [id |-> n, faculty_id |-> i, name |-> c.name,
                 year_level |-> c.year_level, units |-> c.units,
                 schedule |-> c.schedule]

\* C12: after every add_faculty and add_course, accepted or turned down,
\* the store holds exactly the roster: an accepted change comes with its
\* save, written from empty tables, in the same step, and a handler that
\* raises a dialog changes neither the roster nor the store.
C12_StoreIsRoster ==
    /\ [](StoreHoldsRoster)
    /\ [][/\ faculty_list' # faculty_list
             => db' = save_data_to_db(EmptyStore, faculty_list')
          /\ dialog' # "" => (faculty_list' = faculty_list /\ db' = db)]_vars

\* A roster of two faculty and two courses, one of them of the second
\* faculty, is in the store, and the last handler turned its input down.
C12_Witness ==
    /\ dialog # ""
    /\ Len(faculty_list) = 2
    /\ CountCourses(faculty_list) = 2
    /\ faculty_list[2].courses # <<>>
    /\ Len(db.faculty) = 2
    /\ Len(db.courses) = 2
    /\ db.courses[2].faculty_id = 2

====
